---- MODULE Spec2Model ----
(***************************************************************************)
(* Model of the text-art pipeline of src/main.py: palette selection,       *)
(* intensity-to-character mapping, image preparation and the render loop   *)
(* of generate_text_art.                                                   *)
(*                                                                         *)
(* A Python str is a sequence of one-character strings, so <<"H","i">> is  *)
(* the str "Hi" and a palette entry such as " " is the str <<" ">>.        *)
(* The result of a call is a record: kind "return" with its value, or kind *)
(* "raise" with the exception's class (exc) and the class of the exception *)
(* that was being handled when it was raised (cause, Python's __context__).*)
(*                                                                         *)
(* Python evaluates p / 255 * (n - 1) and w * (h / sw) * 0.5 in doubles.   *)
(* On the ranges the model draws from (p in -1000..1000 with n <= 25;      *)
(* w in -3..8 or 100..101 with sw, sh in 1..7) the truncated double equals *)
(* the truncated exact quotient, which is what the model computes.         *)
(***************************************************************************)
EXTENDS Integers, Sequences, FiniteSets, TLC

VARIABLES
    pc,               \* position of the process
    fs,               \* the file behind image_path as os.path and the codec see it
    width,            \* argument of generate_text_art / load_and_process_image
    emotion,          \* argument of generate_text_art / get_emotion_based_char_set
    image,            \* local of generate_text_art: the resized grayscale image
    resize_request,   \* the size load_and_process_image passed to image.resize
    char_set,         \* local of generate_text_art, argument of the mapping
    text_art_lines,   \* local of generate_text_art
    row,              \* local of generate_text_art
    x,                \* inner loop variable
    y,                \* outer loop variable
    pixel_intensity,  \* local of generate_text_art, argument of the mapping
    outcome,          \* how the call under study ended
    origin,           \* class of the first exception raised during the call
    run,              \* number of the current invocation
    first_outcome     \* outcome of the first invocation

vars == <<pc, fs, width, emotion, image, resize_request, char_set, text_art_lines,
          row, x, y, pixel_intensity, outcome, origin, run, first_outcome>>

---------------------------------------------------------------------------
(* Bounds of the model. *)

MaxPaletteLen == 9      \* longest generic palette
MaxOver == 300          \* intensities range over -MaxOver .. 255 + MaxOver
MaxNegWidth == 1        \* widths range over -MaxNegWidth .. MaxWidth
MaxWidth == 2
MaxHeight == 2          \* tallest grid handed directly to the render loop
MaxSrc == 3             \* source images are up to MaxSrc x MaxSrc
MaxRuns == 2            \* invocations in a row

(* Program constants. *)
DefaultWidth == 100     \* width: int = 100

---------------------------------------------------------------------------
(* Python values. *)

NoValue == <<>>

Return(v) == [kind |-> "return", exc |-> "None", cause |-> "None", value |-> v]

Raise(e, c) == [kind |-> "raise", exc |-> e, cause |-> c, value |-> NoValue]

Pending == [kind |-> "pending", exc |-> "None", cause |-> "None", value |-> NoValue]

\* int(num / den) for den > 0: truncation toward zero
IntTrunc(num, den) ==
    IF num >= 0 THEN num \div den ELSE -((-num) \div den)

\* list[index] with Python's negative indices
ListGet(list, index) ==
    IF index >= 0 /\ index < Len(list) THEN Return(list[index + 1])
    ELSE IF index < 0 /\ index >= -Len(list) THEN Return(list[Len(list) + index + 1])
    ELSE Raise("IndexError", "None")

RECURSIVE Join(_, _)
\* sep.join(strs)
Join(sep, strs) ==
    IF strs = <<>> THEN <<>>
    ELSE IF Len(strs) = 1 THEN strs[1]
    ELSE strs[1] \o sep \o Join(sep, Tail(strs))

LowerChars == <<"a","b","c","d","e","f","g","h","i","j","k","l","m",
                "n","o","p","q","r","s","t","u","v","w","x","y","z">>

UpperChars == <<"A","B","C","D","E","F","G","H","I","J","K","L","M",
                "N","O","P","Q","R","S","T","U","V","W","X","Y","Z">>

IsLower(c) == \E k \in 1..Len(LowerChars) : LowerChars[k] = c

IsUpper(c) == \E k \in 1..Len(UpperChars) : UpperChars[k] = c

ToUpper(c) ==
    IF IsLower(c) THEN UpperChars[CHOOSE k \in 1..Len(LowerChars) : LowerChars[k] = c]
    ELSE c

ToLower(c) ==
    IF IsUpper(c) THEN LowerChars[CHOOSE k \in 1..Len(UpperChars) : UpperChars[k] = c]
    ELSE c

\* str.capitalize(): first character upper-cased, the rest lower-cased
Capitalize(s) ==
    IF s = <<>> THEN <<>>
    ELSE <<ToUpper(s[1])>> \o [k \in 1..(Len(s) - 1) |-> ToLower(s[k + 1])]

---------------------------------------------------------------------------
(* get_emotion_based_char_set *)

HappyKey == <<"H","a","p","p","y">>
SadKey == <<"S","a","d">>
AngryKey == <<"A","n","g","r","y">>
NeutralKey == <<"N","e","u","t","r","a","l">>

EmotionKeys == {HappyKey, SadKey, AngryKey, NeutralKey}

EMOTION_CHAR_SETS ==
    [k \in EmotionKeys |->
        CASE k = HappyKey -> << <<" ">>, <<".">>, <<":">>, <<"*">>, <<"+">> >>
          [] k = SadKey -> << <<".">>, <<"-">>, <<"=">>, <<"#">>, <<"@">> >>
          [] k = AngryKey -> << <<"#">>, <<"@">>, <<"&">>, <<"%">>, <<"+">> >>
          [] k = NeutralKey -> << <<" ">>, <<".">>, <<":">>, <<"-">>, <<"=">>,
                                  <<"+">>, <<"*">>, <<"#">> >>]

\* dict.get(key, default)
DictGet(dict, key, default) ==
    IF key \in DOMAIN dict THEN dict[key] ELSE default

\* the lookup without the normalisation
LookupAsGiven(label) ==
    DictGet(EMOTION_CHAR_SETS, label, EMOTION_CHAR_SETS[NeutralKey])

get_emotion_based_char_set(label) ==
    DictGet(EMOTION_CHAR_SETS, Capitalize(label), EMOTION_CHAR_SETS[NeutralKey])

---------------------------------------------------------------------------
(* get_character_for_intensity *)

\* index = int(pixel_intensity / 255 * (len(char_set) - 1)), rounded to nearest
IndexRounded(intensity, palette) ==
    (2 * intensity * (Len(palette) - 1) + 255) \div 510

\* index = int(pixel_intensity / 255 * len(char_set))
IndexScaledByLen(intensity, palette) ==
    IntTrunc(intensity * Len(palette), 255)

\* index = int(pixel_intensity / 255 * (len(char_set) - 1))
IndexFor(intensity, palette) ==
    IntTrunc(intensity * (Len(palette) - 1), 255)

\* the mapping with a blank substituted when the palette is empty
GetCharOrBlank(intensity, palette) ==
    IF palette = <<>> THEN Return(<<" ">>)
    ELSE ListGet(palette, IntTrunc(intensity * (Len(palette) - 1), 255))

get_character_for_intensity(intensity, palette) ==
    ListGet(palette, IndexFor(intensity, palette))

---------------------------------------------------------------------------
(* The file system and the codec (os.path.exists, PIL.Image). *)

\* samples a grayscale image can hold, in the order the pixel patterns use
Samples == <<0, 255, 128, 64, 254, 1, 127, 200>>

\* pixel (px, py) of a pattern is Samples[(seed + sx * px + sy * py) mod Len(Samples)]
Strides == {<<1, 2>>, <<1, 0>>, <<0, 1>>}

Patterns == [seed : 0..(Len(Samples) - 1), stride : Strides]

NoPattern == [seed |-> 0, stride |-> <<0, 0>>]

NoImage == [width |-> 0, height |-> 0, pattern |-> NoPattern]

NoRequest == [asked |-> FALSE, width |-> 0, height |-> 0]

\* the sample the codec put at column px, row py of the grid
GridSample(img, px, py) ==
    Samples[((img.pattern.seed + img.pattern.stride[1] * px
              + img.pattern.stride[2] * py) % Len(Samples)) + 1]

\* image.getpixel((y, x))
ReadPixelTransposed(img, px, py) ==
    GridSample(img, py, px)

\* image.getpixel((x, y))
ReadPixel(img, px, py) ==
    GridSample(img, px, py)

\* height = int(width * aspect_ratio * 0.5), aspect_ratio = image.height / image.width
TargetHeight(w, src_width, src_height) ==
    IntTrunc(w * src_height, 2 * src_width)

\* the size handed to image.resize, when the call gets that far
ResizeRequest(file, w) ==
    IF file.exists /\ file.decodable
    THEN [asked |-> TRUE, width |-> w,
          height |-> TargetHeight(w, file.src_width, file.src_height)]
    ELSE NoRequest

\* image.resize((w, h), LANCZOS).convert('L'): Pillow refuses a size below 1 x 1
Resize(file, w, h) ==
    IF w < 1 \/ h < 1
    THEN [kind |-> "raise", exc |-> "ValueError", image |-> NoImage]
    ELSE [kind |-> "return", exc |-> "None",
          image |-> [width |-> w, height |-> h, pattern |-> file.pattern]]

\* load_and_process_image: kind, exc and cause as in Return/Raise, image when returned
load_and_process_image(file, w) ==
    IF ~file.exists
    THEN [kind |-> "raise", exc |-> "FileNotFoundError", cause |-> "None",
          origin |-> "FileNotFoundError", image |-> NoImage]
    ELSE IF ~file.decodable
    THEN [kind |-> "raise", exc |-> "ValueError", cause |-> "UnidentifiedImageError",
          origin |-> "UnidentifiedImageError", image |-> NoImage]
    ELSE LET r == Resize(file, w, TargetHeight(w, file.src_width, file.src_height))
         IN  IF r.kind = "raise"
             THEN [kind |-> "raise", exc |-> "ValueError", cause |-> r.exc,
                   origin |-> r.exc, image |-> NoImage]
             ELSE [kind |-> "return", exc |-> "None", cause |-> "None",
                   origin |-> "None", image |-> r.image]

---------------------------------------------------------------------------
(* Inputs. *)

NoFile == [exists |-> FALSE, decodable |-> FALSE, src_width |-> 1, src_height |-> 1,
           pattern |-> NoPattern]

UndecodableFile == [exists |-> TRUE, decodable |-> FALSE, src_width |-> 1,
                    src_height |-> 1, pattern |-> NoPattern]

ImageFiles == [exists : {TRUE}, decodable : {TRUE}, src_width : 1..MaxSrc,
               src_height : 1..MaxSrc, pattern : Patterns]

Files == {NoFile, UndecodableFile} \cup ImageFiles

Widths == (-MaxNegWidth)..MaxWidth

PrepareWidths == Widths \cup {DefaultWidth}

Ramp == <<" ", ".", ":", "-", "=", "+", "*", "#", "%", "@", "&", "$">>

PaletteOfLen(n) == [k \in 1..n |-> <<Ramp[k]>>]

BinaryPalette == << <<" ">>, <<"#">> >>

EmotionPalettes == {EMOTION_CHAR_SETS[k] : k \in EmotionKeys}

Palettes == {PaletteOfLen(n) : n \in 0..MaxPaletteLen} \cup EmotionPalettes
            \cup {BinaryPalette}

Intensities == (-MaxOver)..(255 + MaxOver)

RenderImages == [width : 1..MaxWidth, height : 1..MaxHeight, pattern : Patterns]

RECURSIVE Pow2(_)
Pow2(n) == IF n = 0 THEN 1 ELSE 2 * Pow2(n - 1)

\* name with the letters at the positions set in mask upper-cased, the others lower-cased
CaseVariant(name, mask) ==
    [k \in 1..Len(name) |->
        IF (mask \div Pow2(k - 1)) % 2 = 1 THEN ToUpper(name[k]) ELSE ToLower(name[k])]

CaseVariants(name) == {CaseVariant(name, m) : m \in 0..(Pow2(Len(name)) - 1)}

AllCaseVariants == UNION {CaseVariants(k) : k \in EmotionKeys}

OtherLabels ==
    { <<>>, <<" ">>, <<"x","y","z">>, <<"h","a","p","p">>, <<"h","a","p","p","y","y">>,
      <<"S","A","D","D">>, <<"a","n","g","r","y","!">>, <<"n","e","u","t","r","a","l","1">>,
      <<"H","a","p","p","y","S","a","d">>, <<"1">> }

Labels == AllCaseVariants \cup {s \o <<" ">> : s \in AllCaseVariants}
          \cup {<<" ">> \o s : s \in AllCaseVariants} \cup OtherLabels

PipelineEmotions ==
    { <<"h","a","p","p","y">>, <<"S","A","D">>, AngryKey, <<"x","y","z">>, <<>> }

---------------------------------------------------------------------------
(* Initial states. *)

\* get_emotion_based_char_set(emotion) is about to be called
InitPalette ==
    /\ pc = "select_only"
    /\ emotion \in Labels
    /\ fs = NoFile /\ width = DefaultWidth /\ image = NoImage
    /\ resize_request = NoRequest /\ char_set = <<>> /\ text_art_lines = <<>>
    /\ row = <<>> /\ x = 0 /\ y = 0 /\ pixel_intensity = 0 /\ outcome = Pending
    /\ origin = "None" /\ run = 1 /\ first_outcome = Pending

\* get_character_for_intensity(pixel_intensity, char_set) is about to be called
InitMap ==
    /\ pc = "map_only"
    /\ pixel_intensity \in Intensities
    /\ char_set \in Palettes
    /\ fs = NoFile /\ width = DefaultWidth /\ emotion = NeutralKey /\ image = NoImage
    /\ resize_request = NoRequest /\ text_art_lines = <<>>
    /\ row = <<>> /\ x = 0 /\ y = 0 /\ outcome = Pending
    /\ origin = "None" /\ run = 1 /\ first_outcome = Pending

\* load_and_process_image(image_path, width) is about to be called
InitPrepare ==
    /\ pc = "load_only"
    /\ fs \in Files
    /\ width \in PrepareWidths
    /\ emotion = NeutralKey /\ image = NoImage
    /\ resize_request = NoRequest /\ char_set = <<>> /\ text_art_lines = <<>>
    /\ row = <<>> /\ x = 0 /\ y = 0 /\ pixel_intensity = 0 /\ outcome = Pending
    /\ origin = "None" /\ run = 1 /\ first_outcome = Pending

\* the render loop of generate_text_art is about to run on image with char_set
InitRender ==
    /\ pc = "rows"
    /\ image \in RenderImages
    /\ char_set \in Palettes
    /\ fs = NoFile /\ width = image.width /\ emotion = NeutralKey
    /\ resize_request = NoRequest /\ text_art_lines = <<>>
    /\ row = <<>> /\ x = 0 /\ y = 0 /\ pixel_intensity = 0 /\ outcome = Pending
    /\ origin = "None" /\ run = 1 /\ first_outcome = Pending

\* generate_text_art(image_path, width, emotion) is about to be called
Init ==
    /\ pc = "load"
    /\ fs \in Files
    /\ width \in Widths
    /\ emotion \in PipelineEmotions
    /\ image = NoImage
    /\ resize_request = NoRequest /\ char_set = <<>> /\ text_art_lines = <<>>
    /\ row = <<>> /\ x = 0 /\ y = 0 /\ pixel_intensity = 0 /\ outcome = Pending
    /\ origin = "None" /\ run = 1 /\ first_outcome = Pending

---------------------------------------------------------------------------
(* The functions called on their own. *)

CallGetEmotionBasedCharSet ==
    /\ pc = "select_only"
    /\ char_set' = get_emotion_based_char_set(emotion)
    /\ pc' = "selected"
    /\ UNCHANGED <<fs, width, emotion, image, resize_request, text_art_lines, row, x, y,
                   pixel_intensity, outcome, origin, run, first_outcome>>

CallGetCharacterForIntensity ==
    /\ pc = "map_only"
    /\ outcome' = get_character_for_intensity(pixel_intensity, char_set)
    /\ pc' = "mapped"
    /\ UNCHANGED <<fs, width, emotion, image, resize_request, char_set, text_art_lines,
                   row, x, y, pixel_intensity, origin, run, first_outcome>>

CallLoadAndProcessImage ==
    /\ pc = "load_only"
    /\ LET r == load_and_process_image(fs, width)
       IN  /\ resize_request' = ResizeRequest(fs, width)
           /\ image' = r.image
           /\ origin' = r.origin
           /\ outcome' = IF r.kind = "raise" THEN Raise(r.exc, r.cause)
                         ELSE Return(NoValue)
    /\ pc' = "loaded"
    /\ UNCHANGED <<fs, width, emotion, char_set, text_art_lines, row, x, y,
                   pixel_intensity, run, first_outcome>>

---------------------------------------------------------------------------
(* generate_text_art *)

\* except Exception as e: print(...); sys.exit(1)
ExitOn(e) == Raise("SystemExit", e)

\* text_art_lines left over from the previous invocation
StaleLines == text_art_lines

\* text_art_lines = []
FreshLines == <<>>

\* image = load_and_process_image(image_path, width)
Load ==
    /\ pc = "load"
    /\ LET r == load_and_process_image(fs, width)
       IN  /\ resize_request' = ResizeRequest(fs, width)
           /\ IF r.kind = "raise"
              THEN /\ origin' = r.origin
                   /\ outcome' = ExitOn(r.exc)
                   /\ pc' = "done"
                   /\ UNCHANGED image
              ELSE /\ image' = r.image
                   /\ pc' = "select"
                   /\ UNCHANGED <<origin, outcome>>
    /\ UNCHANGED <<fs, width, emotion, char_set, text_art_lines, row, x, y,
                   pixel_intensity, run, first_outcome>>

\* char_set = get_emotion_based_char_set(emotion); text_art_lines = []
SelectCharSet ==
    /\ pc = "select"
    /\ char_set' = get_emotion_based_char_set(emotion)
    /\ text_art_lines' = FreshLines
    /\ y' = 0
    /\ pc' = "rows"
    /\ UNCHANGED <<fs, width, emotion, image, resize_request, row, x, pixel_intensity,
                   outcome, origin, run, first_outcome>>

\* for y in range(image.height): row = []
RowBegin ==
    /\ pc = "rows"
    /\ y < image.height
    /\ row' = <<>>
    /\ x' = 0
    /\ pc' = "cols"
    /\ UNCHANGED <<fs, width, emotion, image, resize_request, char_set, text_art_lines,
                   y, pixel_intensity, outcome, origin, run, first_outcome>>

\* for x in range(image.width): one pixel read, mapped and appended to row
PixelStep ==
    /\ pc = "cols"
    /\ x < image.width
    /\ pixel_intensity' = ReadPixel(image, x, y)
    /\ LET r == get_character_for_intensity(pixel_intensity', char_set)
       IN  IF r.kind = "raise"
           THEN /\ origin' = r.exc
                /\ outcome' = ExitOn(r.exc)
                /\ pc' = "done"
                /\ UNCHANGED <<row, x>>
           ELSE /\ row' = Append(row, r.value)
                /\ x' = x + 1
                /\ UNCHANGED <<pc, origin, outcome>>
    /\ UNCHANGED <<fs, width, emotion, image, resize_request, char_set, text_art_lines,
                   y, run, first_outcome>>

\* text_art_lines.append(''.join(row))
RowEnd ==
    /\ pc = "cols"
    /\ x >= image.width
    /\ text_art_lines' = Append(text_art_lines, Join(<<>>, row))
    /\ y' = y + 1
    /\ pc' = "rows"
    /\ UNCHANGED <<fs, width, emotion, image, resize_request, char_set, row, x,
                   pixel_intensity, outcome, origin, run, first_outcome>>

\* return '\n'.join(text_art_lines)
ReturnText ==
    /\ pc = "rows"
    /\ y >= image.height
    /\ outcome' = Return(Join(<<"\n">>, text_art_lines))
    /\ pc' = "done"
    /\ UNCHANGED <<fs, width, emotion, image, resize_request, char_set, text_art_lines,
                   row, x, y, pixel_intensity, origin, run, first_outcome>>

\* the caller calls generate_text_art again with the same arguments on the same file
CallAgain ==
    /\ pc = "done"
    /\ run < MaxRuns
    /\ run' = run + 1
    /\ first_outcome' = IF run = 1 THEN outcome ELSE first_outcome
    /\ outcome' = Pending
    /\ origin' = "None"
    /\ pc' = "load"
    /\ UNCHANGED <<fs, width, emotion, image, resize_request, char_set, text_art_lines,
                   row, x, y, pixel_intensity>>

---------------------------------------------------------------------------
(* Specifications. *)

NextPalette == CallGetEmotionBasedCharSet

NextMap == CallGetCharacterForIntensity

NextPrepare == CallLoadAndProcessImage

NextRender == RowBegin \/ PixelStep \/ RowEnd \/ ReturnText

Next == Load \/ SelectCharSet \/ RowBegin \/ PixelStep \/ RowEnd \/ ReturnText
        \/ CallAgain

SpecPalette == InitPalette /\ [][NextPalette]_vars

SpecMap == InitMap /\ [][NextMap]_vars

SpecPrepare == InitPrepare /\ [][NextPrepare]_vars

SpecRender == InitRender /\ [][NextRender]_vars

Spec == Init /\ [][Next]_vars

---------------------------------------------------------------------------
(* Operators the properties are stated with. *)

Max(a, b) == IF a >= b THEN a ELSE b

\* round(num / den) for num >= 0, den > 0, halves to the even neighbour
RoundHalfEven(num, den) ==
    LET q == num \div den
        r == num % den
    IN  IF 2 * r < den THEN q
        ELSE IF 2 * r > den THEN q + 1
        ELSE IF q % 2 = 0 THEN q ELSE q + 1

SameIgnoringCase(s, t) ==
    /\ Len(s) = Len(t)
    /\ \A k \in 1..Len(s) : ToLower(s[k]) = ToLower(t[k])

RECURSIVE SplitLines(_)
\* the rows of a text: the pieces between its line-breaks
SplitLines(text) ==
    IF \A k \in 1..Len(text) : text[k] # "\n" THEN <<text>>
    ELSE LET i == CHOOSE k \in 1..Len(text) :
                      /\ text[k] = "\n"
                      /\ \A j \in 1..(k - 1) : text[j] # "\n"
         IN  <<SubSeq(text, 1, i - 1)>> \o SplitLines(SubSeq(text, i + 1, Len(text)))

ScenarioImage ==
    [width |-> 2, height |-> 2, pattern |-> [seed |-> 0, stride |-> <<1, 2>>]]

ScenarioText == <<" ", "#", "\n", " ", " ">>

---------------------------------------------------------------------------
(* Properties. *)

\* C1: for every desiredWidth >= 1 and every source size, the size
\* load_and_process_image asks the codec for has width = desiredWidth and
\* height = max(1, round(desiredWidth * (source_height / source_width) * 0.5)).
C1_RequestedHeightIsClampedRound ==
    (pc = "loaded" /\ resize_request.asked /\ width >= 1) =>
        /\ resize_request.width = width
        /\ resize_request.height =
               Max(1, RoundHalfEven(width * fs.src_height, 2 * fs.src_width))

\* C2: for every non-empty palette and every intensity in [0,255] the index is
\* within 0..len-1, is 0 for intensity 0 and len-1 for intensity 255, and the
\* character returned is the palette's element at that index.
C2_IndexWithinPalette ==
    (pc = "mapped" /\ char_set # <<>> /\ pixel_intensity \in 0..255) =>
        LET index == IndexFor(pixel_intensity, char_set)
        IN  /\ 0 <= index
            /\ index <= Len(char_set) - 1
            /\ (pixel_intensity = 0 => index = 0)
            /\ (pixel_intensity = 255 => index = Len(char_set) - 1)
            /\ outcome.kind = "return"
            /\ \E k \in 1..Len(char_set) : outcome.value = char_set[k]
            /\ outcome.value = char_set[index + 1]

C2_Witness ==
    /\ pc = "mapped"
    /\ char_set = EMOTION_CHAR_SETS[NeutralKey]
    /\ pixel_intensity = 255
    /\ outcome = Return(<<"#">>)

\* C3: every emotion label yields one of the four fixed palettes: the palette of
\* the label it matches case-insensitively, and the Neutral palette when it
\* matches none (the empty label and labels with surrounding whitespace included).
C3_PaletteForEveryLabel ==
    pc = "selected" =>
        /\ char_set \in EmotionPalettes
        /\ \A k \in EmotionKeys :
               SameIgnoringCase(emotion, k) => char_set = EMOTION_CHAR_SETS[k]
        /\ (\A k \in EmotionKeys : ~SameIgnoringCase(emotion, k))
               => char_set = EMOTION_CHAR_SETS[NeutralKey]

C3_Witness ==
    /\ pc = "selected"
    /\ emotion = <<"h","A","p","P","y">>
    /\ char_set = EMOTION_CHAR_SETS[HappyKey]

\* C4: for a grid of width W >= 1 and height H >= 1 and a non-empty palette the
\* render loop returns a text of exactly H rows separated by single line-breaks,
\* with no trailing line-break, each row of W characters, and the character at
\* row k, column c is the palette character of grid sample (c, k).
C4_RowsMatchGrid ==
    (pc = "done" /\ char_set # <<>>) =>
        /\ outcome.kind = "return"
        /\ LET rows == SplitLines(outcome.value)
           IN  /\ Len(rows) = image.height
               /\ \A k \in 1..Len(rows) :
                      /\ Len(rows[k]) = image.width
                      /\ \A c \in 1..Len(rows[k]) :
                             <<rows[k][c]>> =
                                 char_set[IndexFor(GridSample(image, c - 1, k - 1),
                                                   char_set) + 1]

C4_Witness ==
    /\ pc = "done"
    /\ outcome.kind = "return"
    /\ image.width = 2
    /\ image.height = 2
    /\ char_set = EMOTION_CHAR_SETS[NeutralKey]
    /\ outcome.value[1] # outcome.value[2]
    /\ SubSeq(outcome.value, 1, 2) # SubSeq(outcome.value, 4, 5)

\* C5: with an empty palette the mapping fails for every intensity in [0,255],
\* 0 and 255 included (the Python class of the failure is IndexError), and
\* returns no character.
C5_EmptyPaletteFails ==
    (pc = "mapped" /\ char_set = <<>> /\ pixel_intensity \in 0..255) =>
        /\ outcome.kind = "raise"
        /\ outcome.exc = "IndexError"
        /\ outcome.value = NoValue

C5_Witness ==
    /\ pc = "mapped"
    /\ char_set = <<>>
    /\ pixel_intensity = 255
    /\ outcome.kind = "raise"

\* C6: for every non-empty palette and every intensity outside [0,255] the
\* mapping fails and returns no palette character.
C6_OutOfRangeIntensityFails ==
    (pc = "mapped" /\ char_set # <<>> /\ pixel_intensity \notin 0..255) =>
        outcome.kind = "raise"

\* C7: whenever a stage of generate_text_art fails, the call ends with the
\* originating error propagated unchanged to the caller.
C7_ErrorPropagatedUnchanged ==
    (pc = "done" /\ origin # "None") =>
        /\ outcome.kind = "raise"
        /\ outcome.exc = origin

\* C8: for every desiredWidth <= 0, preparing a decodable image fails with an
\* error of a kind distinct from the image-not-found and decode errors.
C8_InvalidWidthIsItsOwnError ==
    (pc = "loaded" /\ fs.exists /\ fs.decodable /\ width <= 0) =>
        /\ outcome.kind = "raise"
        /\ outcome.exc # load_and_process_image(NoFile, 1).exc
        /\ outcome.exc # load_and_process_image(UndecodableFile, 1).exc

C10_FloorTruncation ==
    /\ char_set # <<>> =>
           /\ \A i \in 0..255 :
                  IndexFor(i, char_set) = (i * (Len(char_set) - 1)) \div 255
           /\ \A i \in 0..254 : IndexFor(i, char_set) <= IndexFor(i + 1, char_set)
           /\ Len(char_set) >= 2 =>
                  \A i \in 0..254 : IndexFor(i, char_set) <= Len(char_set) - 2
    /\ (pc = "done" /\ image = ScenarioImage /\ char_set = BinaryPalette) =>
           outcome = Return(ScenarioText)

C10_Witness ==
    /\ pc = "done"
    /\ image = ScenarioImage
    /\ char_set = BinaryPalette
    /\ <<GridSample(image, 0, 0), GridSample(image, 1, 0)>> = <<0, 255>>
    /\ <<GridSample(image, 0, 1), GridSample(image, 1, 1)>> = <<128, 64>>
    /\ outcome.kind = "return"
    /\ SplitLines(outcome.value) = << <<" ", "#">>, <<" ", " ">> >>

====
